---------------------------- MODULE Spec2Model ----------------------------
(***************************************************************************)
(* Model of src/investment.py: calculate_strategies (the DCA, Trailing-Buy *)
(* and Lump-Sum simulators with the price-series normaliser and the result *)
(* assembler) and calculate_rolling_returns.                               *)
(*                                                                         *)
(* Conventions                                                             *)
(*  - A date is a day number; day 0 is Monday 2001-01-01, so d % 7 is the  *)
(*    weekday (0 = Monday .. 4 = Friday) and the years 2001..2099 follow   *)
(*    the plain four-year leap cycle.  Rows of a price history fall on     *)
(*    weekdays (trading days); holidays are weekdays without a row.        *)
(*  - A price is an integer.  A value of a pandas Series that may be NaN   *)
(*    is a sequence: << >> is NaN, <<v>> is the number v.                  *)
(*  - Share counts are exact rationals held as integer multiples of        *)
(*    1/Unit, so amount/price is amount * Unit \div price with no          *)
(*    remainder; values (shares x price) carry the same factor.  The code  *)
(*    uses binary floating point; the model uses exact arithmetic.         *)
(*  - strftime('%Y-%m-%d') yields the triple <<year, month, day>>, and the *)
(*    comparison of two such strings is the lexicographic one.             *)
(***************************************************************************)
EXTENDS Integers, Sequences, FiniteSets, TLC

(***************************************************************************)
(* Calendar (pandas Timestamp / offsets arithmetic).                       *)
(***************************************************************************)
Min(a, b) == IF a <= b THEN a ELSE b

Max(a, b) == IF a >= b THEN a ELSE b

\* index of the year of day d, counted from 2001
YearIdx(d) == 4 * (d \div 1461) + Min(3, (d % 1461) \div 365)

\* first day of the year with index yi
YearStart(yi) == 1461 * (yi \div 4) + 365 * (yi % 4)

IsLeap(yi) == yi % 4 = 3

DaysInMonth(yi, m) ==
    IF m = 2 THEN (IF IsLeap(yi) THEN 29 ELSE 28)
    ELSE IF m \in {4, 6, 9, 11} THEN 30 ELSE 31

RECURSIVE DaysBeforeMonth(_, _)
DaysBeforeMonth(yi, m) ==
    IF m = 1 THEN 0 ELSE DaysBeforeMonth(yi, m - 1) + DaysInMonth(yi, m - 1)

RECURSIVE MonthOfDoy(_, _, _)
MonthOfDoy(yi, doy, m) ==
    IF doy < DaysBeforeMonth(yi, m) + DaysInMonth(yi, m) THEN m
    ELSE MonthOfDoy(yi, doy, m + 1)

MonthOf(d) == MonthOfDoy(YearIdx(d), d - YearStart(YearIdx(d)), 1)

DayOfMonth(d) ==
    d - YearStart(YearIdx(d)) - DaysBeforeMonth(YearIdx(d), MonthOf(d)) + 1

\* months since January 2001
MonthIdx(d) == 12 * YearIdx(d) + (MonthOf(d) - 1)

DayNum(yi, m, dom) == YearStart(yi) + DaysBeforeMonth(yi, m) + dom - 1

\* last calendar day of the month with index mi
MonthLastDay(mi) == DayNum(mi \div 12, (mi % 12) + 1, DaysInMonth(mi \div 12, (mi % 12) + 1))

IsBDay(d) == d % 7 < 5

\* last business day of the month with index mi (offsets BM / BME)
BMonthEnd(mi) ==
    LET e == MonthLastDay(mi)
    IN  IF e % 7 = 5 THEN e - 1 ELSE IF e % 7 = 6 THEN e - 2 ELSE e

\* last business day of the year with index yi (offsets BA / BYE)
BYearEnd(yi) == BMonthEnd(12 * yi + 11)

\* the Friday on or after d
FridayOnOrAfter(d) == d + ((11 - (d % 7)) % 7)

NextBDay(d) == IF d % 7 = 4 THEN d + 3 ELSE IF d % 7 = 5 THEN d + 2 ELSE d + 1

\* ts - pd.DateOffset(months=k): same day of month, clamped to the month's end
SubMonths(d, k) ==
    LET mi == MonthIdx(d) - k
        yi == mi \div 12
        m  == (mi % 12) + 1
    IN  DayNum(yi, m, Min(DayOfMonth(d), DaysInMonth(yi, m)))

\* date.strftime('%Y-%m-%d')
strftime(d) == <<2001 + YearIdx(d), MonthOf(d), DayOfMonth(d)>>

\* s <= t on two '%Y-%m-%d' strings
StrLeq(s, t) ==
    \/ s[1] < t[1]
    \/ s[1] = t[1] /\ s[2] < t[2]
    \/ s[1] = t[1] /\ s[2] = t[2] /\ s[3] <= t[3]

Frequencies == {"Daily", "Weekly", "Bi-Weekly", "Monthly", "Annual"}


(***************************************************************************)
(* Price Series Normalizer: Series.resample(freq)['Close'].last(), the     *)
(* fill, the chunking and the de-duplication of calculate_strategies.      *)
(* A history is a sequence of rows [date, Close] in increasing date order. *)
(***************************************************************************)
NaN == << >>

IsNa(v) == v = NaN

\* The label of the resample bucket that holds day d, for a (chunk of a)
\* series whose first row is on day anchor.  B: one bucket per business day,
\* labelled by it.  W-FRI, BM, BA: buckets closed and labelled at their right
\* end.  2W-FRI: two-week buckets whose right ends step by 14 days from the
\* Friday on or after the first row.
Label(freq, anchor, d) ==
    CASE freq = "Daily"     -> d
      [] freq = "Weekly"    -> FridayOnOrAfter(d)
      [] freq = "Bi-Weekly" ->
            FridayOnOrAfter(anchor)
              + 14 * ((FridayOnOrAfter(d) - FridayOnOrAfter(anchor) + 13) \div 14)
      [] freq = "Monthly"   -> BMonthEnd(MonthIdx(d))
      [] freq = "Annual"    -> BYearEnd(YearIdx(d))

\* the label that follows label L
NextLabel(freq, L) ==
    CASE freq = "Daily"     -> NextBDay(L)
      [] freq = "Weekly"    -> L + 7
      [] freq = "Bi-Weekly" -> L + 14
      [] freq = "Monthly"   -> BMonthEnd(MonthIdx(L) + 1)
      [] freq = "Annual"    -> BYearEnd(YearIdx(L) + 1)

\* .last() of one bucket: the Close of the last row in it, NaN if it is empty
BucketLast(rows, freq, L) ==
    LET in == {i \in 1..Len(rows) : Label(freq, rows[1].date, rows[i].date) = L}
    IN  IF in = {} THEN NaN
        ELSE <<rows[CHOOSE i \in in : \A j \in in : j <= i].Close>>

RECURSIVE ResampleFrom(_, _, _, _)
ResampleFrom(rows, freq, L, Lend) ==
    IF L > Lend THEN << >>
    ELSE <<[date |-> L, price |-> BucketLast(rows, freq, L)]>>
           \o ResampleFrom(rows, freq, NextLabel(freq, L), Lend)

\* rows.resample(freq_map[freq])['Close'].last(): one entry per bucket from
\* the bucket of the first row to the bucket of the last row
resample_last(rows, freq) ==
    IF rows = << >> THEN << >>
    ELSE ResampleFrom(rows, freq,
                      Label(freq, rows[1].date, rows[1].date),
                      Label(freq, rows[1].date, rows[Len(rows)].date))

HasNa(s) == \E i \in 1..Len(s) : IsNa(s[i].price)

RECURSIVE ffill(_)
ffill(s) ==
    IF Len(s) <= 1 THEN s
    ELSE LET init == ffill(SubSeq(s, 1, Len(s) - 1))
             last == s[Len(s)]
         IN  Append(init, IF IsNa(last.price)
                          THEN [last EXCEPT !.price = init[Len(init)].price]
                          ELSE last)

RECURSIVE bfill(_)
bfill(s) ==
    IF Len(s) <= 1 THEN s
    ELSE LET rest == bfill(Tail(s))
         IN  <<IF IsNa(s[1].price) THEN [s[1] EXCEPT !.price = rest[1].price]
               ELSE s[1]>> \o rest

\* if s.isna().any(): s = s.ffill().bfill()
fill_gaps(s) == IF HasNa(s) THEN bfill(ffill(s)) ELSE s

\* [hist.iloc[i:i + size] for i in range(0, len(hist), size)]
RECURSIVE chunks_of(_, _)
chunks_of(rows, size) ==
    IF Len(rows) <= size THEN <<rows>>
    ELSE <<SubSeq(rows, 1, size)>> \o chunks_of(SubSeq(rows, size + 1, Len(rows)), size)

\* pd.concat of the per-chunk resampled and filled series
RECURSIVE concat_chunks(_, _)
concat_chunks(chunks, freq) ==
    IF chunks = << >> THEN << >>
    ELSE fill_gaps(resample_last(chunks[1], freq)) \o concat_chunks(Tail(chunks), freq)

\* data[~data.index.duplicated(keep='first')]
drop_duplicates(s) ==
    SelectSeq([i \in 1..Len(s) |-> [date |-> s[i].date, price |-> s[i].price,
                                    dup |-> \E j \in 1..(i - 1) : s[j].date = s[i].date]],
              LAMBDA e : ~e.dup)

strip_dup(s) == [i \in 1..Len(s) |-> [date |-> s[i].date, price |-> s[i].price]]

\* the series of lines 225-239 for a chunk size of size rows
resample_data(hist, freq, size) ==
    IF Len(hist) > size THEN concat_chunks(chunks_of(hist, size), freq)
    ELSE fill_gaps(resample_last(hist, freq))

\* the whole-series branch alone (lines 237-239)
resample_whole(hist, freq) == fill_gaps(resample_last(hist, freq))

\* line 245
deduplicate(s) == strip_dup(drop_duplicates(s))

chunk_size == 1000


(***************************************************************************)
(* Inputs.                                                                 *)
(***************************************************************************)
\* the longest generated price history, in rows
MaxRows == 3

\* first trading days: Thursday 2001-12-27 and Friday 2001-12-28, so that
\* short histories cross a week end, a business month end and a business
\* year end (Monday 2001-12-31)
StartDays == {360, 361}

\* the next row is the next business day, or the one after it (a holiday)
BSteps == {1, 2}

Closes == {0, 90, 100}

\* every positive close of the model divides Unit
Unit == 2 * 25200

RECURSIVE AddBDays(_, _)
AddBDays(d, k) == IF k = 0 THEN d ELSE AddBDays(NextBDay(d), k - 1)

RECURSIVE DateAt(_, _, _)
DateAt(start, steps, i) ==
    IF i = 1 THEN start ELSE AddBDays(DateAt(start, steps, i - 1), steps[i - 1])

History(start, steps, closes) ==
    [i \in 1..Len(closes) |-> [date |-> DateAt(start, steps, i), Close |-> closes[i]]]

DailyFrom(start, closes) == History(start, [i \in 1..(Len(closes) - 1) |-> 1], closes)

\* the oscillating scenario: ten consecutive business days from Monday 2001-12-17
Oscillating == DailyFrom(350, <<100, 90, 100, 80, 100, 70, 100, 60, 100, 50>>)

\* small declines that accumulate, a non-positive close, a decline after the reset
Drifting == DailyFrom(350, <<100, 96, 90, 0, 84, 80>>)

\* the rising scenario: closes rising linearly from 100 to 200
Rising == DailyFrom(350, <<100, 120, 140, 160, 180, 200>>)

Histories ==
    {<< >>, Oscillating, Drifting, Rising}
      \cup UNION {{History(s, st, c) : s \in StartDays,
                                        st \in [1..(n - 1) -> BSteps],
                                        c \in [1..n -> Closes]} : n \in 1..MaxRows}

\* the valid trailing percentages of the requests of every frequency: the
\* ends of (0, 100) and the 10 of the oscillating scenario; the 5 of the
\* rising scenario is requested with its Daily frequency
TrailingPercentages == {1, 10, 99}

\* requests (investment_amount, frequency, timeline_months, trailing_percentage):
\* the valid ones, and one for every way of being invalid
Requests ==
    {[amount |-> 10, frequency |-> f, timeline |-> 1, trailing |-> t] :
        f \in Frequencies, t \in TrailingPercentages}
      \cup {[amount |-> 10, frequency |-> "Daily",  timeline |-> 1, trailing |-> 5],
            [amount |-> 0,  frequency |-> "Daily",  timeline |-> 1, trailing |-> 10],
            [amount |-> 10, frequency |-> "Daily",  timeline |-> 0, trailing |-> 10],
            [amount |-> 10, frequency |-> "Daily",  timeline |-> 1, trailing |-> 0],
            [amount |-> 10, frequency |-> "Daily",  timeline |-> 1, trailing |-> 100],
            [amount |-> 10, frequency |-> "Hourly", timeline |-> 1, trailing |-> 10]}

(***************************************************************************)
(* State of one call of calculate_strategies.                              *)
(***************************************************************************)
VARIABLES
    pc,                    \* the position in the function
    exc,                   \* the exception that left the function, or NoExc
    hist_data,             \* argument: the rows of the requested timeline
    hist_data_full,        \* argument: the rows of the full history
    investment_amount,     \* argument
    frequency,             \* argument
    timeline_months,       \* argument
    trailing_percentage,   \* argument
    hist_data_filtered,
    rolling_returns,
    trading_schedule,      \* sequence of dates
    data,                  \* the normalized series: sequence of [date, price]
    trading_periods,
    total_investment,
    dca_purchases, dca_total_shares, dca_total_invested,
    dca_i,                 \* index of the next date of trading_schedule
    trailing_purchases, trailing_total_shares, trailing_total_invested,
    highest_price,
    tr_i,                  \* index of the next point of data
    values,                \* [dca, trailing, lump]: final portfolio values
    performance,           \* the curves of lines 365-397
    result,                \* the returned payload
    rr_i,                  \* calculate_rolling_returns: index of the next period
    rr_failed,             \* ... the periods whose strategy computation raised
    norm_chunk,            \* normaliser comparison: the chunk size in rows
    norm_whole             \* ... the series resampled in one piece

args == <<hist_data, hist_data_full, investment_amount, frequency,
          timeline_months, trailing_percentage>>

prep == <<hist_data_filtered, rolling_returns, trading_schedule, data,
          trading_periods, total_investment>>

dca == <<dca_purchases, dca_total_shares, dca_total_invested, dca_i>>

trailing == <<trailing_purchases, trailing_total_shares, trailing_total_invested,
              highest_price, tr_i>>

outs == <<values, performance, result>>

aux == <<rr_i, rr_failed, norm_chunk, norm_whole>>

vars == <<pc, exc, args, prep, dca, trailing, outs, aux>>

NoExc == [type |-> "none", msg |-> ""]

\* Python's None; a value that may be None is a sequence: << >> or <<v>>
None == << >>

\* the locals before the first statement runs
Locals ==
    /\ exc = NoExc
    /\ hist_data_filtered = << >>
    /\ rolling_returns = None
    /\ trading_schedule = << >>
    /\ data = << >>
    /\ trading_periods = 0
    /\ total_investment = 0
    /\ dca_purchases = << >> /\ dca_total_shares = 0 /\ dca_total_invested = 0
    /\ dca_i = 1
    /\ trailing_purchases = << >> /\ trailing_total_shares = 0
    /\ trailing_total_invested = 0
    /\ highest_price = NaN
    /\ tr_i = 1
    /\ values = None
    /\ performance = None
    /\ result = None
    /\ rr_i = 1
    /\ rr_failed = {}
    /\ norm_whole = << >>

Raise(type, msg) == pc' = "raised" /\ exc' = [type |-> type, msg |-> msg]


(***************************************************************************)
(* calculate_rolling_returns.  A percentage is an exact fraction           *)
(* [num, den]; the result is a function from the horizon labels that are   *)
(* present to the three strategies' returns.                               *)
(***************************************************************************)
MAX_LOOKBACK_MONTHS == 300

all_periods ==
    <<[name |-> "1 Year",   months |-> 12],  [name |-> "5 Years",  months |-> 60],
      [name |-> "10 Years", months |-> 120], [name |-> "15 Years", months |-> 180],
      [name |-> "20 Years", months |-> 240], [name |-> "25 Years", months |-> 300]>>

Frac(n, d) == [num |-> n, den |-> d]

\* ((hist_data.index[-1] - hist_data.index[0]).days // 30)
data_length_months(hist) == (hist[Len(hist)].date - hist[1].date) \div 30

\* the periods dictionary of lines 45-52, in insertion order
selected_periods(hist) ==
    SelectSeq(all_periods, LAMBDA p : p.months <= data_length_months(hist))

\* calculate_simple_returns(period_data): None, or the three estimates
calculate_simple_returns(period_data) ==
    LET final_price   == period_data[Len(period_data)].Close
        initial_price == period_data[1].Close
        price_return  == Frac((final_price - initial_price) * 100, initial_price)
    IN  IF initial_price <= 0 \/ final_price <= 0 THEN None
        ELSE <<[BuyTheDip  |-> Frac(price_return.num * 11, price_return.den * 10),
                DCA        |-> Frac(price_return.num * 21, price_return.den * 20),
                BuyAndHold |-> price_return]>>

\* hist_data[hist_data.index >= period_end - pd.DateOffset(months=period_months)]
period_window(hist, months) ==
    SelectSeq(hist, LAMBDA r : r.date >= SubMonths(hist[Len(hist)].date, months))

\* the ordinal of the resample bucket of day d (consecutive buckets have
\* consecutive ordinals)
BucketOrd(freq, anchor, d) ==
    CASE freq = "Daily"     -> 5 * (d \div 7) + (d % 7)
      [] freq = "Weekly"    -> FridayOnOrAfter(d) \div 7
      [] freq = "Bi-Weekly" -> (Label(freq, anchor, d) - FridayOnOrAfter(anchor)) \div 14
      [] freq = "Monthly"   -> MonthIdx(d)
      [] freq = "Annual"    -> YearIdx(d)

\* the non-empty buckets of rows.resample(freq)['Close'].agg(['last']), as
\* [ord, last]: a row is the last of its bucket when the next row is in another
RECURSIVE bucket_lasts(_, _, _)
bucket_lasts(rows, freq, anchor) ==
    IF rows = << >> THEN << >>
    ELSE LET o == BucketOrd(freq, anchor, rows[1].date)
         IN  IF Len(rows) > 1 /\ BucketOrd(freq, anchor, rows[2].date) = o
             THEN bucket_lasts(Tail(rows), freq, anchor)
             ELSE <<[ord |-> o, last |-> rows[1].Close]>>
                    \o bucket_lasts(Tail(rows), freq, anchor)

\* the sum of the forward-filled resampled series: a bucket's value is
\* repeated for every empty bucket that follows it
RECURSIVE filled_sum(_)
filled_sum(b) ==
    IF Len(b) = 1 THEN b[1].last
    ELSE b[1].last * (b[2].ord - b[1].ord) + filled_sum(Tail(b))

\* the abbreviated simulation with Buy and Hold taken from the first row of
\* the window in place of the first resampled value
abbreviated_returns_from_first_row(period_data, freq) ==
    LET b             == bucket_lasts(period_data, freq, period_data[1].date)
        count         == b[Len(b)].ord - b[1].ord + 1
        final_value   == b[Len(b)].last
        initial_value == period_data[1].Close
        total         == filled_sum(b)
        dca_return    == Frac((final_value * count - total) * 100, total)
    IN  IF initial_value <= 0 \/ final_value <= 0 THEN None
        ELSE <<[BuyTheDip  |-> Frac(dca_return.num * 11, dca_return.den * 10),
                DCA        |-> dca_return,
                BuyAndHold |-> Frac((final_value - initial_value) * 100, initial_value)]>>

\* lines 113-133: the abbreviated simulation on the resampled window;
\* None when the first or last resampled value is not positive
abbreviated_returns(period_data, freq) ==
    LET b             == bucket_lasts(period_data, freq, period_data[1].date)
        count         == b[Len(b)].ord - b[1].ord + 1
        final_value   == b[Len(b)].last
        initial_value == b[1].last
        total         == filled_sum(b)
        dca_return    == Frac((final_value * count - total) * 100, total)
    IN  IF initial_value <= 0 \/ final_value <= 0 THEN None
        ELSE <<[BuyTheDip  |-> Frac(dca_return.num * 11, dca_return.den * 10),
                DCA        |-> dca_return,
                BuyAndHold |-> Frac((final_value - initial_value) * 100, initial_value)]>>

\* freq_map[frequency] raises KeyError inside the inner try (line 113)
strategy_returns_fail(freq) == freq \notin Frequencies

\* if value: results[name] = value
put(results, name, value) ==
    IF value = None THEN results
    ELSE [n \in DOMAIN results \cup {name} |-> IF n = name THEN value[1] ELSE results[n]]

\* one iteration of the loop, a failed simulation leaving the period out
process_period_omit_failed(results, hist, freq, p) ==
    LET period_data == period_window(hist, p.months)
    IN  IF p.months > MAX_LOOKBACK_MONTHS \div 2
        THEN put(results, p.name, calculate_simple_returns(period_data))
        ELSE IF strategy_returns_fail(freq)
             THEN results
             ELSE put(results, p.name, abbreviated_returns(period_data, freq))

\* one iteration of the loop of lines 82-144
process_period(results, hist, freq, p) ==
    LET period_data == period_window(hist, p.months)
    IN  IF p.months > MAX_LOOKBACK_MONTHS \div 2
        THEN put(results, p.name, calculate_simple_returns(period_data))
        ELSE IF strategy_returns_fail(freq)
             THEN put(results, p.name, calculate_simple_returns(period_data))
             ELSE put(results, p.name, abbreviated_returns(period_data, freq))

\* All-Time added only to a history of more than one row
add_all_time_multi_row(results, hist) ==
    IF Len(hist) > 1 THEN put(results, "All-Time", calculate_simple_returns(hist))
    ELSE results

\* lines 146-150
add_all_time(results, hist) ==
    IF Len(hist) > 0 THEN put(results, "All-Time", calculate_simple_returns(hist))
    ELSE results

RECURSIVE process_periods(_, _, _, _)
process_periods(results, hist, freq, ps) ==
    IF ps = << >> THEN results
    ELSE process_periods(process_period(results, hist, freq, ps[1]), hist, freq, Tail(ps))

EmptyDict == [n \in {} |-> 0]

calculate_rolling_returns(hist, freq) ==
    IF hist = << >> THEN EmptyDict
    ELSE add_all_time(process_periods(EmptyDict, hist, freq, selected_periods(hist)),
                      hist)


(***************************************************************************)
(* calculate_strategies: validation, calendar, normalisation.              *)
(***************************************************************************)
Init ==
    /\ pc = "validate"
    /\ hist_data \in Histories
    /\ hist_data_full = hist_data
    /\ \E r \in Requests :
          /\ investment_amount = r.amount
          /\ frequency = r.frequency
          /\ timeline_months = r.timeline
          /\ trailing_percentage = r.trailing
    /\ norm_chunk = chunk_size
    /\ Locals

\* is day d on the offset freq_map[freq], for a range that starts on day first
on_offset(freq, first, d) ==
    CASE freq = "Daily"     -> IsBDay(d)
      [] freq = "Weekly"    -> d % 7 = 4
      [] freq = "Bi-Weekly" -> d % 7 = 4 /\ (d - FridayOnOrAfter(first)) % 14 = 0
      [] freq = "Monthly"   -> d = BMonthEnd(MonthIdx(d))
      [] freq = "Annual"    -> d = BYearEnd(YearIdx(d))

\* pd.date_range(start=first, end=last, freq=freq_map[freq]), as a set
date_range(first, last, freq) == {d \in first..last : on_offset(freq, first, d)}

\* lines 190-193
filter_timeline(hist, full, months) ==
    LET timeline_start_date == SubMonths(full[Len(full)].date, months)
    IN  SelectSeq(hist, LAMBDA r : r.date >= timeline_start_date)

\* the dates of a set in increasing order
RECURSIVE SortedDates(_)
SortedDates(S) ==
    IF S = {} THEN << >>
    ELSE LET first == CHOOSE d \in S : \A e \in S : d <= e
         IN  <<first>> \o SortedDates(S \ {first})

\* the .intersection(hist_data_filtered.index) of line 216 left out
resolve_schedule_no_intersection(filtered, freq) ==
    SortedDates(date_range(filtered[1].date, filtered[Len(filtered)].date, freq))

\* lines 212-216: the dates of the range that exist in the filtered history
resolve_schedule(filtered, freq) ==
    LET range == date_range(filtered[1].date, filtered[Len(filtered)].date, freq)
        kept  == SelectSeq(filtered, LAMBDA r : r.date \in range)
    IN  [i \in 1..Len(kept) |-> kept[i].date]

\* lines 255-263: expected_periods[frequency]
expected_periods(hist, freq) ==
    LET n == Cardinality(date_range(hist[1].date, hist[Len(hist)].date, freq))
    IN  IF freq = "Annual" THEN Max(1, n) ELSE n

\* lines 158-196
Validate ==
    /\ pc = "validate"
    /\ IF hist_data = << >> \/ hist_data_full = << >>
       THEN Raise("ValueError", "Historical data cannot be empty")
       ELSE IF investment_amount <= 0
       THEN Raise("ValueError", "Investment amount must be positive")
       ELSE IF timeline_months <= 0
       THEN Raise("ValueError", "Timeline must be positive")
       ELSE IF trailing_percentage <= 0 \/ trailing_percentage >= 100
       THEN Raise("ValueError", "Trailing percentage must be between 0 and 100")
       ELSE IF filter_timeline(hist_data, hist_data_full, timeline_months) = << >>
       THEN Raise("ValueError", "Insufficient data for the specified timeline")
       ELSE pc' = "schedule" /\ exc' = exc
    /\ hist_data_filtered' =
          IF pc' = "schedule"
          THEN filter_timeline(hist_data, hist_data_full, timeline_months)
          ELSE hist_data_filtered
    /\ UNCHANGED <<args, rolling_returns, trading_schedule, data, trading_periods,
                   total_investment, dca, trailing, outs, aux>>

\* lines 198-219: freq_map[frequency] is evaluated at line 215, before the
\* membership test of line 218
Schedule ==
    /\ pc = "schedule"
    /\ rolling_returns' = <<calculate_rolling_returns(hist_data_full, frequency)>>
    /\ IF frequency \notin Frequencies
       THEN /\ Raise("KeyError", frequency)
            /\ UNCHANGED trading_schedule
       ELSE /\ trading_schedule' = resolve_schedule(hist_data_filtered, frequency)
            /\ pc' = "resample"
            /\ exc' = exc
    /\ UNCHANGED <<args, hist_data_filtered, data, trading_periods, total_investment,
                   dca, trailing, outs, aux>>

\* lines 221-248
Resample ==
    /\ pc = "resample"
    /\ LET raw == resample_data(hist_data, frequency, norm_chunk)
       IN  IF raw = << >>
           THEN /\ Raise("ValueError", "Error resampling data")
                /\ UNCHANGED data
           ELSE /\ data' = deduplicate(raw)
                /\ pc' = "periods"
                /\ exc' = exc
    /\ UNCHANGED <<args, hist_data_filtered, rolling_returns, trading_schedule,
                   trading_periods, total_investment, dca, trailing, outs, aux>>

\* lines 250-269
Periods ==
    /\ pc = "periods"
    /\ trading_periods' = expected_periods(hist_data, frequency)
    /\ IF trading_periods' = 0
       THEN /\ Raise("ValueError", "No trading periods available after processing")
            /\ UNCHANGED total_investment
       ELSE /\ total_investment' = investment_amount * trading_periods'
            /\ pc' = "dca"
            /\ exc' = exc
    /\ UNCHANGED <<args, hist_data_filtered, rolling_returns, trading_schedule, data,
                   dca, trailing, outs, aux>>

(***************************************************************************)
(* The DCA loop, lines 271-299: one step per date of the trading schedule. *)
(***************************************************************************)
\* the positions of data labelled date (data.loc[date] raises KeyError if none)
loc(series, date) == {i \in 1..Len(series) : series[i].date = date}

\* investment_amount / price, in 1/Unit shares
shares_for(amount, price) == (amount * Unit) \div price

\* the try body of lines 280-296: does this date buy?
dca_buys(series, date) ==
    /\ loc(series, date) # {}
    /\ LET price == series[CHOOSE i \in loc(series, date) : TRUE].price
       IN  ~IsNa(price) /\ price[1] > 0

DcaStep ==
    /\ pc = "dca"
    /\ dca_i <= Len(trading_schedule)
    /\ LET date == trading_schedule[dca_i]
       IN  IF dca_buys(data, date)
           THEN LET price  == data[CHOOSE i \in loc(data, date) : TRUE].price[1]
                    shares == shares_for(investment_amount, price)
                IN  /\ dca_total_shares' = dca_total_shares + shares
                    /\ dca_total_invested' = dca_total_invested + investment_amount
                    /\ dca_purchases' = Append(dca_purchases,
                          [date |-> strftime(date),
                           price |-> price,
                           shares |-> shares,
                           amount |-> investment_amount,
                           cumulative_shares |-> dca_total_shares',
                           total_invested |-> dca_total_invested'])
           ELSE UNCHANGED <<dca_purchases, dca_total_shares, dca_total_invested>>
    /\ dca_i' = dca_i + 1
    /\ UNCHANGED <<pc, exc, args, prep, trailing, outs, aux>>


(***************************************************************************)
(* The Trailing-Buy loop, lines 301-339: one step per point of data.       *)
(***************************************************************************)
\* a zero initial price let through
initial_price_rejected_negative(price) == ~IsNa(price) /\ price[1] < 0

\* line 307: highest_price <= 0 (false for NaN)
initial_price_rejected(price) == ~IsNa(price) /\ price[1] <= 0

\* lines 305-310
TrailingInit ==
    /\ pc = "dca"
    /\ dca_i > Len(trading_schedule)
    /\ highest_price' = data[1].price
    /\ IF initial_price_rejected(data[1].price)
       THEN Raise("ValueError", "Error initializing trailing strategy: Initial price must be positive")
       ELSE pc' = "trailing" /\ exc' = exc
    /\ UNCHANGED <<args, prep, dca, trailing_purchases, trailing_total_shares,
                   trailing_total_invested, tr_i, outs, aux>>

\* a strict comparison in place of line 321's >=
decline_reached_strict(highest, price, percentage) ==
    IF highest > 0 THEN (highest - price) * 100 > percentage * highest
    ELSE 0 > percentage

\* lines 319-321: decline >= trailing_percentage, where decline is
\* (highest - price) / highest * 100 if highest > 0 and 0 otherwise
decline_reached(highest, price, percentage) ==
    IF highest > 0 THEN (highest - price) * 100 >= percentage * highest
    ELSE 0 >= percentage

\* a purchase at every point that is not above highest_price
trailing_buys_without_decline(highest, price, percentage) ==
    /\ ~IsNa(price) /\ price[1] > 0
    /\ ~IsNa(highest)
    /\ highest[1] >= price[1]

\* does the point with this price buy, given highest_price (NaN compares false)
trailing_buys(highest, price, percentage) ==
    /\ ~IsNa(price) /\ price[1] > 0
    /\ ~IsNa(highest)
    /\ decline_reached(highest[1], price[1], percentage)

\* line 334 left out: the peak is not reset by a purchase
next_highest_no_reset(highest, price, percentage) ==
    IF IsNa(price) \/ IsNa(highest) THEN highest
    ELSE IF price[1] <= 0 THEN highest
    ELSE <<Max(highest[1], price[1])>>

\* highest_price after the point: untouched by the continue of line 316; reset
\* to the price by a purchase (line 334); then max(highest_price, price)
next_highest(highest, price, percentage) ==
    IF IsNa(price) \/ IsNa(highest) THEN highest
    ELSE IF price[1] <= 0 THEN highest
    ELSE LET reset == IF trailing_buys(highest, price, percentage)
                      THEN price[1] ELSE highest[1]
         IN  <<Max(reset, price[1])>>

TrailingStep ==
    /\ pc = "trailing"
    /\ tr_i <= Len(data)
    /\ LET date  == data[tr_i].date
           price == data[tr_i].price
       IN  /\ IF trailing_buys(highest_price, price, trailing_percentage)
              THEN LET shares == shares_for(investment_amount, price[1])
                   IN  /\ trailing_total_shares' = trailing_total_shares + shares
                       /\ trailing_total_invested' =
                             trailing_total_invested + investment_amount
                       /\ trailing_purchases' = Append(trailing_purchases,
                             [date |-> strftime(date),
                              price |-> price[1],
                              shares |-> shares,
                              amount |-> investment_amount,
                              decline_percentage |->
                                 Frac((highest_price[1] - price[1]) * 100, highest_price[1]),
                              cumulative_shares |-> trailing_total_shares',
                              total_invested |-> trailing_total_invested'])
              ELSE UNCHANGED <<trailing_purchases, trailing_total_shares,
                               trailing_total_invested>>
           /\ highest_price' = next_highest(highest_price, price, trailing_percentage)
    /\ tr_i' = tr_i + 1
    /\ UNCHANGED <<pc, exc, args, prep, dca, outs, aux>>

(***************************************************************************)
(* Final values, curves and the payload, lines 341-468.                    *)
(***************************************************************************)
\* the Lump-Sum capital taken from what DCA actually invested
initial_investment_dca(total) == dca_total_invested

\* the capital the Lump-Sum strategy is sized with (line 269)
initial_investment(total) == total

\* total_investment / price, in 1/Unit shares (lines 359 and 391)
lump_shares_for(total, price) == (total * Unit) \div price

\* shares * final_price if shares > 0 else 0 (lines 353, 356, 360)
portfolio_value(shares, final_price) == IF shares > 0 THEN shares * final_price ELSE 0

\* lines 341-363
FinalValues ==
    /\ pc = "trailing"
    /\ tr_i > Len(data)
    /\ LET final_price   == data[Len(data)].price[1]
           initial_price == data[1].price[1]
       IN  IF final_price <= 0 \/ initial_price <= 0
           THEN /\ Raise("ValueError", "Error calculating final portfolio values: Invalid price data for calculations")
                /\ UNCHANGED values
           ELSE /\ values' =
                     [dca      |-> portfolio_value(dca_total_shares, final_price),
                      trailing |-> portfolio_value(trailing_total_shares, final_price),
                      lump     |-> portfolio_value(
                                     lump_shares_for(total_investment, initial_price),
                                     final_price)]
                /\ pc' = "performance"
                /\ exc' = exc
    /\ UNCHANGED <<args, prep, dca, trailing, performance, result, aux>>

RECURSIVE SumShares(_)
SumShares(ps) == IF ps = << >> THEN 0 ELSE ps[1].shares + SumShares(Tail(ps))

\* lines 369-377: point i adds the i-th ledger entry, if there is one
dca_curve(series, purchases) ==
    [i \in 1..Len(series) |->
        SumShares(SubSeq(purchases, 1, Min(i, Len(purchases)))) * series[i].price[1]]

\* line 384: [t for t in trailing_purchases if t['date'] <= dates[i]]
bought_by(purchases, date_str) == SelectSeq(purchases, LAMBDA t : StrLeq(t.date, date_str))

\* lines 380-388
trailing_curve(series, purchases) ==
    [i \in 1..Len(series) |->
        SumShares(bought_by(purchases, strftime(series[i].date))) * series[i].price[1]]

\* lines 391-392
lump_curve(series, total) ==
    [i \in 1..Len(series) |->
        lump_shares_for(total, series[1].price[1]) * series[i].price[1]]

\* lines 365-397
Performance ==
    /\ pc = "performance"
    /\ performance' =
          [dates    |-> [i \in 1..Len(data) |-> strftime(data[i].date)],
           dca      |-> dca_curve(data, dca_purchases),
           trailing |-> trailing_curve(data, trailing_purchases),
           lump     |-> lump_curve(data, total_investment),
           dca_invested |->
              [i \in 1..Len(data) |-> Min(investment_amount * i, total_investment)],
           trailing_invested |->
              [i \in 1..Len(data) |->
                  Min(Len(bought_by(trailing_purchases, strftime(data[i].date)))
                         * investment_amount, total_investment)],
           lump_invested |-> [i \in 1..Len(data) |-> total_investment]]
    \* the loop of lines 371-375 recomputes dca_total_invested
    /\ dca_total_invested' = investment_amount * Min(Len(data), Len(dca_purchases))
    /\ trailing_total_invested' =
          Len(bought_by(trailing_purchases, strftime(data[Len(data)].date)))
             * investment_amount
    /\ pc' = "assemble"
    /\ UNCHANGED <<exc, args, prep, dca_purchases, dca_total_shares, dca_i,
                   trailing_purchases, trailing_total_shares, highest_price, tr_i,
                   values, result, aux>>

\* round(num / den, 2) in cents, ties to even
Round2(num, den) ==
    LET n == num * 100
        q == n \div den
        r == n % den
    IN  IF 2 * r < den THEN q
        ELSE IF 2 * r > den THEN q + 1
        ELSE IF q % 2 = 0 THEN q ELSE q + 1

\* lines 413-426: whole years and remaining months of the full history
lifetime(full) ==
    LET days  == full[Len(full)].date - full[1].date
        years == (4 * days) \div 1461
    IN  [years      |-> years,
         months     |-> ((4 * days - 1461 * years) * 12) \div 1461,
         start_date |-> strftime(full[1].date),
         end_date   |-> strftime(full[Len(full)].date)]

\* lines 443-444 divide by dca_value and by dca_invested: Python raises
\* ZeroDivisionError when the divisor and the dividend are its own numbers
\* (the int 0 of a strategy that never bought)
assemble_fails(vals, dca_invested) ==
    \/ vals.dca = 0 /\ vals.trailing = 0
    \/ dca_invested = 0

\* lines 399-468
Assemble ==
    /\ pc = "assemble"
    /\ LET dca_invested      == dca_total_invested
           trailing_invested == Len(trailing_purchases) * investment_amount
           lump_invested     == initial_investment(total_investment)
       IN  IF assemble_fails(values, dca_invested)
           THEN /\ Raise("ZeroDivisionError", "division by zero")
                /\ UNCHANGED result
           ELSE /\ result' =
                     [summary |->
                        [lifetime       |-> lifetime(hist_data_full),
                         dca_value      |-> Round2(values.dca, Unit),
                         trailing_value |-> Round2(values.trailing, Unit),
                         lump_value     |-> Round2(values.lump, Unit),
                         \* the percentages are kept as the exact fraction that
                         \* the code multiplies by 100 and rounds
                         dca_vs_trailing |->
                            Frac(values.trailing - values.dca, values.dca),
                         dca_percentage_increase |->
                            Frac(values.dca - dca_invested * Unit, dca_invested * Unit),
                         trailing_percentage_increase |->
                            IF trailing_invested > 0
                            THEN Frac(values.trailing - trailing_invested * Unit,
                                      trailing_invested * Unit)
                            ELSE Frac(0, 1),
                         lump_percentage_increase |->
                            Frac(values.lump - lump_invested * Unit, lump_invested * Unit),
                         dca_dollar_increase |->
                            Round2(values.dca - dca_invested * Unit, Unit),
                         trailing_dollar_increase |->
                            Round2(values.trailing - trailing_invested * Unit, Unit),
                         lump_dollar_increase |->
                            Round2(values.lump - lump_invested * Unit, Unit),
                         initial_price    |-> hist_data[1].Close,
                         total_investment |->
                            Round2(initial_investment(total_investment), 1),
                         rolling_returns  |->
                            calculate_rolling_returns(hist_data_full, frequency)],
                      performance  |-> performance,
                      transactions |-> [dca |-> dca_purchases,
                                        trailing |-> trailing_purchases],
                      daily_prices |->
                         [i \in 1..Len(hist_data) |->
                             [date  |-> strftime(hist_data[i].date),
                              close |-> hist_data[i].Close]]]
                /\ pc' = "done"
                /\ exc' = exc
    /\ UNCHANGED <<args, prep, dca, trailing, values, performance, aux>>

Next ==
    \/ Validate
    \/ Schedule
    \/ Resample
    \/ Periods
    \/ DcaStep
    \/ TrailingInit
    \/ TrailingStep
    \/ FinalValues
    \/ Performance
    \/ Assemble

Spec == Init /\ [][Next]_vars


(***************************************************************************)
(* Properties of the Trailing-Buy simulator.                               *)
(***************************************************************************)
\* the trailing loop has started (highest_price is initialised)
TrailingRunning == pc \in {"trailing", "performance", "assemble", "done"}

PriceAt(i) == data[i].price[1]

\* The step rule as the claim words it.  RuleHighest(k) is highest_price
\* after the first k points, RuleBuys(k) says whether point k is a purchase.
RECURSIVE RuleHighest(_)
RuleHighest(k) ==
    IF k = 0 THEN PriceAt(1)
    ELSE LET before == RuleHighest(k - 1)
             price  == PriceAt(k)
             bought == (before - price) * 100 >= trailing_percentage * before
         IN  IF price <= 0 THEN before
             ELSE IF bought THEN price
             ELSE IF price > before THEN price ELSE before

RuleBuys(k) ==
    /\ PriceAt(k) > 0
    /\ (RuleHighest(k - 1) - PriceAt(k)) * 100 >= trailing_percentage * RuleHighest(k - 1)

RuleLedgerPoints(n) == SelectSeq([k \in 1..n |-> k], RuleBuys)

PointOf(entry) == CHOOSE i \in 1..Len(data) : strftime(data[i].date) = entry.date

\* the highest valid price among points i .. j
PeakOver(i, j) ==
    LET valid == {PriceAt(k) : k \in {m \in i..j : PriceAt(m) > 0}}
    IN  CHOOSE p \in valid : \A q \in valid : q <= p

\* C2: for two consecutive entries of the trailing ledger, bought at points
\* i < j, the price at j is at least trailing_percentage percent below the
\* highest valid price at points i .. j-1.
C2_DeclineBetweenPurchases ==
    TrailingRunning =>
       \A k \in 1..(Len(trailing_purchases) - 1) :
          LET i    == PointOf(trailing_purchases[k])
              j    == PointOf(trailing_purchases[k + 1])
              peak == PeakOver(i, j - 1)
          IN  /\ i < j
              /\ (peak - PriceAt(j)) * 100 >= trailing_percentage * peak

\* two consecutive purchases with a rise above the first one in between
C2_Witness ==
    /\ TrailingRunning
    /\ \E k \in 1..(Len(trailing_purchases) - 1) :
          LET i == PointOf(trailing_purchases[k])
              j == PointOf(trailing_purchases[k + 1])
          IN  j > i + 1 /\ PeakOver(i, j - 1) > PriceAt(i)


(***************************************************************************)
(* Properties of the Lump-Sum sizing, the DCA ledger and the curves.       *)
(***************************************************************************)
\* C3: the Lump-Sum capital is investment_amount x trading_periods in the
\* summary's total_investment (in cents), in the denominator of
\* lump_percentage_increase, in the shares bought at the first normalized
\* price and at every point of the lump_invested curve, whatever DCA and
\* Trailing-Buy bought.
C3_LumpSumCapital ==
    pc = "done" =>
       LET capital == investment_amount * expected_periods(hist_data, frequency)
       IN  /\ result.summary.total_investment = 100 * capital
           /\ result.summary.lump_percentage_increase.den = capital * Unit
           /\ result.performance.lump[1] = capital * Unit
           /\ values.lump * PriceAt(1) = capital * Unit * PriceAt(Len(data))
           /\ \A i \in 1..Len(data) : result.performance.lump_invested[i] = capital

\* a payload for a run in which DCA bought on fewer dates than trading_periods
\* and Trailing-Buy bought as well
C3_Witness ==
    /\ pc = "done"
    /\ Len(dca_purchases) < trading_periods
    /\ Len(trailing_purchases) > 0

\* the DCA loop has run to its end
DcaFinished ==
    \/ pc = "dca" /\ dca_i > Len(trading_schedule)
    \/ pc \in {"trailing", "performance", "assemble", "done"}

\* the dates of the resolved trading schedule: the dates of the frequency's
\* calendar within the filtered history that have a row in it
ResolvedDates ==
    {d \in date_range(hist_data_filtered[1].date,
                      hist_data_filtered[Len(hist_data_filtered)].date, frequency) :
        \E i \in 1..Len(hist_data_filtered) : hist_data_filtered[i].date = d}

\* ... of which those whose normalized price is present and > 0
BuyableDates ==
    {d \in ResolvedDates :
        \E i \in 1..Len(data) :
           data[i].date = d /\ ~IsNa(data[i].price) /\ data[i].price[1] > 0}

\* C4: the DCA ledger holds one purchase, in date order, for every date of
\* the resolved schedule whose normalized price is present and > 0 and for no
\* other date; its k-th entry has shares = amount/price, total_invested =
\* amount x k and cumulative_shares = the sum of the shares of entries 1..k.
C4_DcaLedger ==
    DcaFinished =>
       /\ Len(dca_purchases) = Cardinality(BuyableDates)
       /\ {dca_purchases[k].date : k \in 1..Len(dca_purchases)}
             = {strftime(d) : d \in BuyableDates}
       /\ \A k \in 1..(Len(dca_purchases) - 1) :
             /\ StrLeq(dca_purchases[k].date, dca_purchases[k + 1].date)
             /\ dca_purchases[k].date # dca_purchases[k + 1].date
       /\ \A k \in 1..Len(dca_purchases) :
             /\ \E i \in 1..Len(data) :
                   /\ strftime(data[i].date) = dca_purchases[k].date
                   /\ dca_purchases[k].price = PriceAt(i)
             /\ dca_purchases[k].shares * dca_purchases[k].price
                   = investment_amount * Unit
             /\ dca_purchases[k].total_invested = investment_amount * k
             /\ dca_purchases[k].cumulative_shares
                   = SumShares(SubSeq(dca_purchases, 1, k))

\* a finished DCA loop that bought at least twice and skipped a scheduled date
C4_Witness ==
    /\ DcaFinished
    /\ Len(dca_purchases) >= 2
    /\ Len(dca_purchases) < Len(trading_schedule)

\* C5: at every point i of the normalized series, each strategy's value
\* curve is (the shares of its ledger purchases dated on or before point i)
\* x (the price at point i), for the DCA curve and the Trailing-Buy curve.
C5_ValueCurves ==
    pc \in {"assemble", "done"} =>
       \A i \in 1..Len(data) :
          /\ performance.dca[i]
                = SumShares(bought_by(dca_purchases, strftime(data[i].date))) * PriceAt(i)
          /\ performance.trailing[i]
                = SumShares(bought_by(trailing_purchases, strftime(data[i].date)))
                     * PriceAt(i)

\* C7 (requests with a known frequency): calculate_strategies raises nothing
\* but ValueError, so no outcome of the simulations makes the assembly raise.
C7_OnlyValueError ==
    (pc = "raised" /\ frequency \in Frequencies) => exc.type = "ValueError"

\* every close of the history is the same positive constant
UniformPrices ==
    /\ hist_data # << >>
    /\ hist_data[1].Close > 0
    /\ \A i \in 1..Len(hist_data) : hist_data[i].Close = hist_data[1].Close

\* C10: on a series of one positive constant, DCA's reported final value (in
\* cents) is amount x trading_periods, which is Lump-Sum's final value.
C10_UniformDcaValue ==
    (pc = "done" /\ UniformPrices) =>
       /\ result.summary.dca_value = 100 * investment_amount * trading_periods
       /\ result.summary.dca_value = result.summary.lump_value

\* What the code does on such a series: DCA's reported final value is
\* amount x (number of DCA purchases) and Lump-Sum's is amount x
\* trading_periods; the two agree exactly when every calendar date counted by
\* trading_periods is a date of the price history.
UniformValuesByPurchases ==
    (pc = "done" /\ UniformPrices) =>
       /\ result.summary.dca_value = 100 * investment_amount * Len(dca_purchases)
       /\ result.summary.lump_value = 100 * investment_amount * trading_periods
       /\ (result.summary.dca_value = result.summary.lump_value)
             <=> \A d \in date_range(hist_data[1].date, hist_data[Len(hist_data)].date,
                                     frequency) :
                    \E i \in 1..Len(hist_data) : hist_data[i].date = d


(***************************************************************************)
(* The normaliser on its own: the chunked path of lines 225-235 against    *)
(* the whole-series path of lines 237-239, for histories longer than the   *)
(* chunk size.  The chunk size is drawn from 1..MaxChunk in place of the   *)
(* 1000 rows of line 224, so that histories of a few rows are chunked.     *)
(***************************************************************************)
MaxChunk == 2

NormInit ==
    /\ pc = "norm"
    /\ hist_data \in Histories
    /\ hist_data_full = hist_data
    /\ frequency \in Frequencies
    /\ norm_chunk \in 1..MaxChunk
    /\ Len(hist_data) > norm_chunk
    /\ investment_amount = 10 /\ timeline_months = 1 /\ trailing_percentage = 10
    /\ Locals

\* lines 225-235 and 245
NormChunked ==
    /\ pc = "norm"
    /\ data' = deduplicate(resample_data(hist_data, frequency, norm_chunk))
    /\ pc' = "norm_whole"
    /\ UNCHANGED <<exc, args, hist_data_filtered, rolling_returns, trading_schedule,
                   trading_periods, total_investment, dca, trailing, outs, aux>>

\* lines 237-239 and 245
NormWhole ==
    /\ pc = "norm_whole"
    /\ norm_whole' = deduplicate(resample_whole(hist_data, frequency))
    /\ pc' = "norm_done"
    /\ UNCHANGED <<exc, args, prep, dca, trailing, outs, rr_i, rr_failed, norm_chunk>>

NormNext == NormChunked \/ NormWhole

SpecNorm == NormInit /\ [][NormNext]_vars

\* C6: for a history longer than the chunk size and every frequency, the
\* series resampled chunk by chunk, concatenated and de-duplicated is the
\* series resampled in one piece: same bucket labels, same value per bucket.
C6_ChunkedEqualsWhole == pc = "norm_done" => data = norm_whole

RECURSIVE SumPrices(_)
SumPrices(series) ==
    IF series = << >> THEN 0 ELSE series[1].price[1] + SumPrices(Tail(series))

\* The forward-filled resampled series that calculate_rolling_returns works
\* on is summarised by bucket_lasts and filled_sum; the summary agrees with
\* the series built bucket by bucket in its length, sum, first and last value.
BucketSummaryAgrees ==
    pc = "norm_done" =>
       LET b == bucket_lasts(hist_data, frequency, hist_data[1].date)
       IN  /\ b[Len(b)].ord - b[1].ord + 1 = Len(norm_whole)
           /\ filled_sum(b) = SumPrices(norm_whole)
           /\ b[1].last = norm_whole[1].price[1]
           /\ b[Len(b)].last = norm_whole[Len(norm_whole)].price[1]

(***************************************************************************)
(* calculate_rolling_returns on its own, one step per selected period.     *)
(***************************************************************************)
\* the longest generated full history, in rows
MaxRollRows == 3

\* Tue 2002-01-01, Fri 2009-03-20, Mon 2016-01-25, Mon 2017-02-06 and
\* Mon 2017-02-27: from the first day, spans of 87, 171, 183 and 184
\* thirty-day months; between the last three, of 12, 13 and 0
RollDays == {365, 3000, 5502, 5880, 5901}

RollCloses == {0, 50, 100}

RollHistories ==
    {<< >>} \cup
    UNION {{[i \in 1..Cardinality(S) |-> [date |-> SortedDates(S)[i], Close |-> c[i]]] :
               c \in [1..Cardinality(S) -> RollCloses]} :
           S \in {T \in SUBSET RollDays : Cardinality(T) \in 1..MaxRollRows}}

RollInit ==
    /\ pc = "rr_start"
    /\ hist_data_full \in RollHistories
    /\ hist_data = hist_data_full
    /\ frequency \in Frequencies \cup {"Hourly"}
    /\ investment_amount = 10 /\ timeline_months = 1 /\ trailing_percentage = 10
    /\ norm_chunk = chunk_size
    /\ Locals

\* lines 17-57
RollStart ==
    /\ pc = "rr_start"
    /\ rolling_returns' = <<EmptyDict>>
    /\ pc' = IF hist_data_full = << >> THEN "rr_done" ELSE "rr_periods"
    /\ UNCHANGED <<exc, args, hist_data_filtered, trading_schedule, data,
                   trading_periods, total_investment, dca, trailing, outs, aux>>

\* lines 82-144, one period
RollPeriod ==
    /\ pc = "rr_periods"
    /\ rr_i <= Len(selected_periods(hist_data_full))
    /\ LET p == selected_periods(hist_data_full)[rr_i]
       IN  /\ rolling_returns' =
                 <<process_period(rolling_returns[1], hist_data_full, frequency, p)>>
           /\ rr_failed' =
                 IF p.months <= MAX_LOOKBACK_MONTHS \div 2 /\ strategy_returns_fail(frequency)
                 THEN rr_failed \cup {p.name} ELSE rr_failed
    /\ rr_i' = rr_i + 1
    /\ UNCHANGED <<pc, exc, args, hist_data_filtered, trading_schedule, data,
                   trading_periods, total_investment, dca, trailing, outs,
                   norm_chunk, norm_whole>>

\* lines 146-152
RollAllTime ==
    /\ pc = "rr_periods"
    /\ rr_i > Len(selected_periods(hist_data_full))
    /\ rolling_returns' = <<add_all_time(rolling_returns[1], hist_data_full)>>
    /\ pc' = "rr_done"
    /\ UNCHANGED <<exc, args, hist_data_filtered, trading_schedule, data,
                   trading_periods, total_investment, dca, trailing, outs, aux>>

RollNext == RollStart \/ RollPeriod \/ RollAllTime

SpecRoll == RollInit /\ [][RollNext]_vars

RollDone == pc = "rr_done"

\* C8 as stated: the result has the key "All-Time" whenever the history is
\* non-empty, whatever its first and last close and whatever its length.
C8_AllTimeWheneverNonEmpty ==
    RollDone /\ hist_data_full # << >> => "All-Time" \in DOMAIN rolling_returns[1]

\* C8: the result has the key "All-Time" exactly when the history is
\* non-empty and its first and its last close are both positive, and the
\* entry is then the simplified estimate over the whole history, whatever
\* the length of the history and whatever the frequency.
C8_AllTimePresence ==
    RollDone =>
       LET results == rolling_returns[1]
           priced  == /\ hist_data_full # << >>
                      /\ hist_data_full[1].Close > 0
                      /\ hist_data_full[Len(hist_data_full)].Close > 0
       IN  /\ "All-Time" \in DOMAIN results <=> priced
           /\ priced => results["All-Time"] = calculate_simple_returns(hist_data_full)[1]

\* a history of several rows reported with All-Time beside another horizon
C8_Witness ==
    /\ RollDone
    /\ Len(hist_data_full) >= 2
    /\ "All-Time" \in DOMAIN rolling_returns[1]
    /\ Cardinality(DOMAIN rolling_returns[1]) >= 2

Labels == {all_periods[i].name : i \in 1..Len(all_periods)} \cup {"All-Time"}

SameEntry(a, b, l) ==
    /\ l \in DOMAIN a <=> l \in DOMAIN b
    /\ l \in DOMAIN a => a[l] = b[l]

\* the entries of the horizons whose simulation did not fail are those of a
\* run in which no simulation fails
OthersUntouched ==
    rr_failed # {} =>
       \A f \in Frequencies : \A l \in Labels \ rr_failed :
          SameEntry(rolling_returns[1],
                    calculate_rolling_returns(hist_data_full, f), l)

\* C9 as stated: when computing a horizon fails, its label is absent from
\* the result, every other horizon and All-Time are what they would be
\* without the failure, and the function does not raise.
C9_FailedHorizonAbsent ==
    RollDone =>
       /\ \A l \in rr_failed : l \notin DOMAIN rolling_returns[1]
       /\ OthersUntouched
       /\ exc = NoExc

\* C9: when the simulation of a horizon fails, the horizon is reported with
\* the simplified estimate over its window, and is absent only when that
\* estimate is undefined (first or last close of the window not positive);
\* every other horizon and All-Time are what they would be without the
\* failure, and the function does not raise.
C9_FailedHorizonFallsBack ==
    RollDone =>
       /\ \A i \in 1..Len(all_periods) :
             LET p == all_periods[i]
             IN  p.name \in rr_failed =>
                    SameEntry(rolling_returns[1],
                              put(EmptyDict, p.name,
                                  calculate_simple_returns(
                                      period_window(hist_data_full, p.months))),
                              p.name)
       /\ OthersUntouched
       /\ exc = NoExc

\* a failed horizon that is reported, beside a long horizon that did not fail
C9_Witness ==
    /\ RollDone
    /\ \E l \in rr_failed : l \in DOMAIN rolling_returns[1]
    /\ \E l \in DOMAIN rolling_returns[1] : l \notin rr_failed /\ l # "All-Time"

FirstPriceNonPositive ==
    data # << >> /\ ~IsNa(data[1].price) /\ data[1].price[1] <= 0

PastTrailingInit == pc \in {"trailing", "performance", "assemble", "done"}

TrailingInitError ==
    [type |-> "ValueError",
     msg  |-> "Error initializing trailing strategy: Initial price must be positive"]

NoPeriodsError ==
    [type |-> "ValueError", msg |-> "No trading periods available after processing"]

\* C11 as stated: with a first normalized price <= 0 the call never gets
\* past the Trailing-Buy initialization and returns no payload, and the
\* exception that leaves it is the ValueError of the Trailing-Buy
\* initialization.
C11_AbortsAtTrailingInit ==
    FirstPriceNonPositive =>
       /\ ~PastTrailingInit
       /\ pc = "raised" => exc = TrailingInitError

\* C11: with a first normalized price <= 0 the call never gets past the
\* Trailing-Buy initialization and returns no payload, whatever the DCA loop
\* recorded; the exception that leaves it is a ValueError: the one of line
\* 265 when the number of expected periods is 0 (the DCA loop has not run),
\* and the one of the Trailing-Buy initialization otherwise.
C11_AbortsWithValueError ==
    FirstPriceNonPositive =>
       /\ ~PastTrailingInit
       /\ pc = "raised" =>
             exc = IF expected_periods(hist_data, frequency) = 0
                   THEN NoPeriodsError ELSE TrailingInitError
       /\ pc = "raised" /\ exc = NoPeriodsError => dca_purchases = << >>

\* the Trailing-Buy initialization aborts a call whose DCA loop has bought
C11_Witness ==
    /\ FirstPriceNonPositive
    /\ pc = "raised"
    /\ exc = TrailingInitError
    /\ dca_purchases # << >>

(***************************************************************************)
(* Trailing-Buy on a series that never declines.                           *)
(***************************************************************************)
\* every price of the normalized series is positive and none is below the
\* one before it
NeverDecreasing ==
    /\ data # << >>
    /\ \A i \in 1..Len(data) : ~IsNa(data[i].price) /\ data[i].price[1] > 0
    /\ \A i \in 2..Len(data) : data[i].price[1] >= data[i - 1].price[1]

\* C12: on a normalized series of positive prices that never decreases, for
\* every trailing percentage, the trailing ledger stays empty and the
\* trailing value curve is 0 at every point; and on any series no ledger
\* entry is dated at the first point.
C12_NoPurchaseWithoutDecline ==
    /\ NeverDecreasing =>
          /\ trailing_purchases = << >>
          /\ trailing_total_shares = 0 /\ trailing_total_invested = 0
          /\ pc \in {"assemble", "done"} =>
                \A i \in 1..Len(data) : performance.trailing[i] = 0
    /\ data # << >> =>
          \A k \in 1..Len(trailing_purchases) :
             trailing_purchases[k].date # strftime(data[1].date)

\* the rising scenario run to the end with the scenario's 5 percent
C12_Witness ==
    /\ pc = "done"
    /\ hist_data = Rising /\ frequency = "Daily" /\ trailing_percentage = 5
    /\ NeverDecreasing
    /\ Len(dca_purchases) = Len(Rising)

(***************************************************************************)
(* Estimator selection in calculate_rolling_returns.  The two estimators   *)
(* are written out here as the specification words them.                   *)
(***************************************************************************)
\* the percentage change from first to last
PctChange(first, last) == Frac((last - first) * 100, first)

\* a percentage times n/d
Scaled(pct, n, d) == Frac(pct.num * n, pct.den * d)

\* Buy and Hold = r, DCA = 1.05 x r, Buy the Dip = 1.10 x r, where r is the
\* first-to-last percentage change of the window
Simplified(window) ==
    LET r == PctChange(window[1].Close, window[Len(window)].Close)
    IN  [BuyAndHold |-> r, DCA |-> Scaled(r, 21, 20), BuyTheDip |-> Scaled(r, 11, 10)]

\* DCA = (final / mean of the resampled series - 1) x 100, Buy the Dip =
\* 1.10 x DCA, Buy and Hold = first-to-last change of the resampled series;
\* the mean is the sum over the number of buckets
Abbreviated(window, freq) ==
    LET b     == bucket_lasts(window, freq, window[1].date)
        n     == b[Len(b)].ord - b[1].ord + 1
        final == b[Len(b)].last
        cost  == Frac((final * n - filled_sum(b)) * 100, filled_sum(b))
    IN  [DCA |-> cost, BuyTheDip |-> Scaled(cost, 11, 10),
         BuyAndHold |-> PctChange(b[1].last, final)]

Elapsed30 == (hist_data_full[Len(hist_data_full)].date - hist_data_full[1].date) \div 30

InvalidFrequencyError ==
    [type |-> "ValueError", msg |-> "Invalid frequency. Must be one of the five"]

\* C14: a call with a frequency outside the five and every other argument
\* valid ends with the ValueError "Invalid frequency ...", raised before the
\* trading schedule is generated or a strategy is simulated; no exception of
\* another type leaves the call.
C14_UnknownFrequencyValueError ==
    (/\ frequency \notin Frequencies
     /\ hist_data # << >> /\ hist_data_full # << >>
     /\ investment_amount > 0 /\ timeline_months > 0
     /\ trailing_percentage > 0 /\ trailing_percentage < 100)
    => /\ pc \in {"validate", "schedule", "raised"}
       /\ trading_schedule = << >> /\ data = << >>
       /\ dca_purchases = << >> /\ trailing_purchases = << >>
       /\ pc = "raised" => exc = InvalidFrequencyError

=============================================================================
